---- MODULE Spec2Model ----
(***************************************************************************)
(* Model of PrcaOrchestrator (src/src/module/PrcaOrchestrator.ts): the     *)
(* constructor, the promise chain of postSonarQubeIssuesToPullRequest and  *)
(* the selection function filterMessages.                                  *)
(*                                                                         *)
(* A path string is a sequence of one-character strings; a Message is a    *)
(* record [file, priority] (its other fields are carried through and never *)
(* read by the orchestrator). The logger is a live ILogger object.         *)
(***************************************************************************)
EXTENDS Integers, Sequences, FiniteSets, TLC

(* ------------------------------ bounds --------------------------------- *)

\* longest list of findings the report processor returns (selection runs)
MaxFindings == 3

\* longest list of changed files the service returns (selection runs)
MaxChanged == 1

\* largest integer messageLimit handed to the constructor
MaxLimit == 1

\* number of invocations of postSonarQubeIssuesToPullRequest
MaxRuns == 2

(* ----------------------------- constants ------------------------------- *)

\* private _messageLimit = 100
DefaultMessageLimit == 100

VARIABLES
    platform,           \* which implementation the imported 'path' module is
    ctorState,          \* "unconstructed" | "constructed" | "threw"
    ctorArgs,           \* the arguments the constructor was called with
    ctorError,          \* what the constructor threw
    sqReportProcessor,  \* this.sqReportProcessor
    PrcaService,        \* this.PrcaService
    _messageLimit,      \* this._messageLimit
    run,                \* one record per invocation of postSonarQubeIssuesToPullRequest
    pending,            \* remote calls issued and not yet answered
    prThreads,          \* the analysis threads on the pull request (service side)
    sel                 \* a direct application of filterMessages: input and result

vars == << platform, ctorState, ctorArgs, ctorError, sqReportProcessor,
           PrcaService, _messageLimit, run, pending, prThreads, sel >>

(* --------------------------- JavaScript numbers ------------------------ *)

\* a number is an integer, NaN, +Infinity or -Infinity; val is 0 unless kind = "int"
Int_(n) == [kind |-> "int", val |-> n]
NaN == [kind |-> "nan", val |-> 0]
PosInf == [kind |-> "posinf", val |-> 0]
NegInf == [kind |-> "neginf", val |-> 0]
Undefined == [kind |-> "undefined", val |-> 0]
Null == [kind |-> "null", val |-> 0]

\* n > lim, n an integer (every comparison with NaN is false)
JsGreater(n, lim) ==
    CASE lim.kind = "int" -> n > lim.val
      [] lim.kind = "neginf" -> TRUE
      [] OTHER -> FALSE

\* n <= lim, n an integer
JsLessEq(n, lim) ==
    CASE lim.kind = "int" -> n <= lim.val
      [] lim.kind = "posinf" -> TRUE
      [] OTHER -> FALSE

Min(a, b) == IF a < b THEN a ELSE b
Max(a, b) == IF a > b THEN a ELSE b

\* Array.prototype.slice(0, end): end is converted with ToIntegerOrInfinity
\* (NaN becomes 0), a negative end counts from the end of the array
Slice0(s, end) ==
    LET len == Len(s)
        final == CASE end.kind = "int" ->
                          IF end.val < 0 THEN Max(len + end.val, 0) ELSE Min(end.val, len)
                   [] end.kind = "posinf" -> len
                   [] OTHER -> 0
    IN  SubSeq(s, 1, final)

(* ------------------------------- paths --------------------------------- *)

Str_a == << "a" >>
Str_A == << "A" >>
Str_b == << "b" >>
Str_dot_a == << ".", "/", "a" >>
Str_dot_bs_a == << ".", "\\", "a" >>

\* process.cwd() as resolved segments: /w
Cwd == << << "w" >> >>

\* String.prototype.toLowerCase on one character
LowerChar(c) ==
    CASE c = "A" -> "a"
      [] c = "B" -> "b"
      [] c = "W" -> "w"
      [] OTHER -> c

ToLowerCase(s) == [i \in DOMAIN s |-> LowerChar(s[i])]

\* the separators of the path module: win32 accepts both slashes
Separators == IF platform = "win32" THEN {"/", "\\"} ELSE {"/"}

IsAbsolute(p) == p # << >> /\ Head(p) \in Separators

RECURSIVE SplitAcc(_, _, _)
SplitAcc(p, cur, acc) ==
    IF p = << >>
    THEN IF cur = << >> THEN acc ELSE Append(acc, cur)
    ELSE IF Head(p) \in Separators
         THEN SplitAcc(Tail(p), << >>, IF cur = << >> THEN acc ELSE Append(acc, cur))
         ELSE SplitAcc(Tail(p), Append(cur, Head(p)), acc)

\* the non-empty segments of a path
Split(p) == SplitAcc(p, << >>, << >>)

RECURSIVE NormalizeAcc(_, _)
NormalizeAcc(parts, acc) ==
    IF parts = << >> THEN acc
    ELSE IF Head(parts) = << "." >> THEN NormalizeAcc(Tail(parts), acc)
    ELSE IF Head(parts) = << ".", "." >>
         THEN NormalizeAcc(Tail(parts),
                           IF acc = << >> THEN acc ELSE SubSeq(acc, 1, Len(acc) - 1))
         ELSE NormalizeAcc(Tail(parts), Append(acc, Head(parts)))

\* resolution of "." and ".." in an absolute segment list
NormalizeArray(parts) == NormalizeAcc(parts, << >>)

\* path.resolve(p): the segments of the absolute path p names
Resolve(p) == NormalizeArray((IF IsAbsolute(p) THEN << >> ELSE Cwd) \o Split(p))

\* what two resolved paths are compared by: win32 lower-cases both
CompareKey(parts) ==
    IF platform = "win32"
    THEN [i \in DOMAIN parts |-> ToLowerCase(parts[i])]
    ELSE parts

\* length of the longest common prefix of two segment lists
CommonLength(f, t) ==
    LET n == Min(Len(f), Len(t))
        ks == {k \in 0..n : \A i \in 1..k : f[i] = t[i]}
    IN  CHOOSE k \in ks : \A j \in ks : j <= k

\* path.relative(from, to), as the list of segments of the result: one ".." for
\* every segment of from past the common prefix, then the rest of to.
\* The result is the empty string exactly when this list is empty.
Relative(from, to) ==
    LET f == Resolve(from)
        t == Resolve(to)
        same == CommonLength(CompareKey(f), CompareKey(t))
    IN  [i \in 1..(Len(f) - same) |-> << ".", "." >>] \o SubSeq(t, same + 1, Len(t))

(* ------------------------------ messages ------------------------------- *)

Priorities == {1, 2}

Msg(f, p) == [file |-> f, priority |-> p]

\* Message.compare(a, b): negative when a sorts first, descending priority
MessageCompare(a, b) == b.priority - a.priority

RECURSIVE SortInsert(_, _)
SortInsert(x, sorted) ==
    IF sorted = << >> THEN << x >>
    ELSE IF MessageCompare(Head(sorted), x) <= 0
         THEN << Head(sorted) >> \o SortInsert(x, Tail(sorted))
         ELSE << x >> \o sorted

RECURSIVE SortAcc(_, _)
SortAcc(s, acc) ==
    IF s = << >> THEN acc ELSE SortAcc(Tail(s), SortInsert(Head(s), acc))

RECURSIVE SortInsertTiesFirst(_, _)
SortInsertTiesFirst(x, sorted) ==
    IF sorted = << >> THEN << x >>
    ELSE IF MessageCompare(Head(sorted), x) < 0
         THEN << Head(sorted) >> \o SortInsertTiesFirst(x, Tail(sorted))
         ELSE << x >> \o sorted

RECURSIVE SortAccTiesFirst(_, _)
SortAccTiesFirst(s, acc) ==
    IF s = << >> THEN acc ELSE SortAccTiesFirst(Tail(s), SortInsertTiesFirst(Head(s), acc))

\* mutant of Sort: a sort by the comparator that reverses equal elements
SortUnstable(s) == SortAccTiesFirst(s, << >>)

\* Array.prototype.sort(Message.compare): a stable sort by the comparator
Sort(s) == SortAcc(s, << >>)

\* mutant of IsInChangedFiles: the callback falls through to "return true"
IsInChangedFilesFallsThrough(filesChanged, message) ==
    \/ \E i \in DOMAIN filesChanged : Relative(filesChanged[i], message.file) = << >>
    \/ TRUE

\* the callback of result.filter: message.file is in filesChanged
IsInChangedFiles(filesChanged, message) ==
    \E i \in DOMAIN filesChanged : Relative(filesChanged[i], message.file) = << >>

\* The arrays of a call of filterMessages: the two arguments, the array the
\* local variable result refers to, and whether that array is allMessages itself.

\* lines 86-87: result = allMessages
BodyStart(filesChanged, allMessages) ==
    [filesChanged |-> filesChanged, allMessages |-> allMessages,
     result |-> allMessages, resultIsAllMessages |-> TRUE]

\* mutant of FilterStep: the dropped findings are removed from the array in place
FilterStepInPlace(h) ==
    LET kept == SelectSeq(h.result, LAMBDA m : IsInChangedFiles(h.filesChanged, m))
    IN  [h EXCEPT !.result = kept,
                  !.allMessages = IF h.resultIsAllMessages THEN kept ELSE @]

\* lines 90-100: result = result.filter(...), a new array
FilterStep(h) ==
    [h EXCEPT !.result = SelectSeq(h.result,
                                   LAMBDA m : IsInChangedFiles(h.filesChanged, m)),
              !.resultIsAllMessages = FALSE]

\* line 104: result.sort(Message.compare) sorts the array in place
SortStep(h) ==
    LET sorted == Sort(h.result)
    IN  [h EXCEPT !.result = sorted,
                  !.allMessages = IF h.resultIsAllMessages THEN sorted ELSE @]

\* line 110: result = result.slice(0, this._messageLimit), a new array
SliceStep(h, limit) ==
    [h EXCEPT !.result = Slice0(h.result, limit), !.resultIsAllMessages = FALSE]

\* the arrays when filterMessages returns
filterMessagesBody(limit, filesChanged, allMessages) ==
    SliceStep(SortStep(FilterStep(BodyStart(filesChanged, allMessages))), limit)

\* filterMessages(filesChanged, allMessages) with this._messageLimit = limit
filterMessagesWith(limit, filesChanged, allMessages) ==
    filterMessagesBody(limit, filesChanged, allMessages).result

filterMessages(filesChanged, allMessages) ==
    filterMessagesWith(_messageLimit, filesChanged, allMessages)

\* the LogDebug calls filterMessages makes
FilterLog(filesChanged, allMessages) ==
    LET n == Len(SelectSeq(allMessages, LAMBDA m : IsInChangedFiles(filesChanged, m)))
    IN  << "LogDebug" >> \o
        (IF JsGreater(n, _messageLimit) THEN << "LogDebug" >> ELSE << >>)

(* ------------------------------- inputs -------------------------------- *)

Nullish == {"null", "undefined"}
Collaborators == {"null", "undefined", "object"}

\* the messageLimit arguments of a selection run
LimitArgs == {Undefined, Null, NaN, PosInf, NegInf} \cup {Int_(n) : n \in -1..MaxLimit}

\* the messageLimit arguments of an orchestration run
RunLimitArgs == {Undefined, Int_(1)}

ReportPaths == {"null", "undefined", "report.json"}

RemoteErrors == {"e1", "e2"}
ParseErrors == {"parse error"}
InvalidInputError == "Error: Make sure a SonarQube enabled build task ran before this step."

SeqsUpTo(S, n) == UNION {[1..k -> S] : k \in 0..n}

\* selection runs: every list of findings and of changed files up to the bounds
FindingFiles == {Str_a, Str_dot_a, Str_A}
ChangedFiles == {Str_a, Str_dot_bs_a}
AllFindingLists == SeqsUpTo({Msg(f, p) : f \in FindingFiles, p \in Priorities}, MaxFindings)
AllChangedLists == SeqsUpTo(ChangedFiles, MaxChanged)

\* orchestration runs: what the report processor and the service answer
Reports == { << >>,
             << Msg(Str_a, 1), Msg(Str_A, 2), Msg(Str_dot_a, 2) >> }
ChangedLists == { << >>, << Str_b, Str_a >> }
InitialThreads == { << >>, << Msg(Str_b, 1) >> }

Runs == 1..MaxRuns

(* ----------------------------- constructor ----------------------------- *)

\* lines 35-37: the value this._messageLimit holds after construction
StoredLimit(messageLimit) ==
    IF messageLimit.kind \notin {"null", "undefined"}
    THEN messageLimit
    ELSE Int_(DefaultMessageLimit)

\* mutant of CtorThrows: the PrcaService check is missing
CtorThrowsOnProcessorOnly(sq, svc) ==
    IF sq \in Nullish THEN "ReferenceError: sqReportProcessor" ELSE "none"

\* lines 25-30: what the constructor throws, "none" when it returns
CtorThrows(sq, svc) ==
    IF sq \in Nullish THEN "ReferenceError: sqReportProcessor"
    ELSE IF svc \in Nullish THEN "ReferenceError: PrcaService"
    ELSE "none"

Construct(sq, svc, ml) ==
    /\ ctorState = "unconstructed"
    /\ ctorArgs' = [sqReportProcessor |-> sq, PrcaService |-> svc, messageLimit |-> ml]
    /\ ctorError' = CtorThrows(sq, svc)
    /\ IF CtorThrows(sq, svc) # "none"
       THEN /\ ctorState' = "threw"
            /\ UNCHANGED << sqReportProcessor, PrcaService, _messageLimit >>
       ELSE /\ ctorState' = "constructed"
            /\ sqReportProcessor' = sq
            /\ PrcaService' = svc
            /\ _messageLimit' = StoredLimit(ml)
    /\ UNCHANGED << platform, run, pending, prThreads, sel >>

(* ------------------------ the service (assumed) ------------------------ *)

\* deleteCodeAnalysisComments: removes every analysis thread
DeleteThreads(threads) == << >>

\* createCodeAnalysisThreads: one thread per message, in input order
CreateThreads(threads, messages) == threads \o messages

(* ------------------- postSonarQubeIssuesToPullRequest ------------------ *)

IdleRun == [pc |-> "idle", sqReportPath |-> "unset", allMessages |-> << >>,
            filesChanged |-> << >>, messagesToPostIsNull |-> TRUE,
            messagesToPost |-> << >>, trace |-> << >>, completed |-> {},
            rejected |-> "none", raised |-> "none", error |-> "none",
            overlapped |-> FALSE]

Active(r) == run[r].pc \in {"awaitFiles", "awaitDelete", "awaitCreate"}

Request(r, op, messages) == [run |-> r, op |-> op, messages |-> messages]

\* invocations are numbered in the order they are made
CanInvoke(r) ==
    /\ ctorState = "constructed"
    /\ run[r].pc = "idle"
    /\ \A q \in Runs : q < r => run[q].pc # "idle"

\* mutant of PostInvalidPath: the report is fetched before the path is checked
PostInvalidPathAfterFetch(r, p) ==
    /\ CanInvoke(r)
    /\ p \in Nullish
    /\ run' = [run EXCEPT ![r] = [@ EXCEPT !.pc = "threw", !.sqReportPath = p,
                                           !.trace = << "LogDebug", "FetchCommentsFromReport" >>,
                                           !.error = InvalidInputError]]
    /\ UNCHANGED << platform, ctorState, ctorArgs, ctorError, sqReportProcessor,
                    PrcaService, _messageLimit, pending, prThreads, sel >>

\* lines 58-61: the report path is undefined or null
PostInvalidPath(r, p) ==
    /\ CanInvoke(r)
    /\ p \in Nullish
    /\ run' = [run EXCEPT ![r] = [@ EXCEPT !.pc = "threw", !.sqReportPath = p,
                                           !.trace = << "LogDebug" >>,
                                           !.error = InvalidInputError]]
    /\ UNCHANGED << platform, ctorState, ctorArgs, ctorError, sqReportProcessor,
                    PrcaService, _messageLimit, pending, prThreads, sel >>

\* mutant of PostFetchThrows: the error is caught and the run goes on with no
\* findings
PostFetchThrowsCaught(r, p, e) ==
    /\ CanInvoke(r)
    /\ p \notin Nullish
    /\ run' = [run EXCEPT ![r] = [@ EXCEPT !.pc = "awaitFiles", !.sqReportPath = p,
                                           !.trace = << "LogDebug", "FetchCommentsFromReport",
                                                        "getModifiedFilesInPr" >>,
                                           !.raised = e]]
    /\ pending' = pending \cup {Request(r, "getModifiedFilesInPr", << >>)}
    /\ UNCHANGED << platform, ctorState, ctorArgs, ctorError, sqReportProcessor,
                    PrcaService, _messageLimit, prThreads, sel >>

\* lines 58-63: FetchCommentsFromReport throws
PostFetchThrows(r, p, e) ==
    /\ CanInvoke(r)
    /\ p \notin Nullish
    /\ run' = [run EXCEPT ![r] = [@ EXCEPT !.pc = "threw", !.sqReportPath = p,
                                           !.trace = << "LogDebug", "FetchCommentsFromReport" >>,
                                           !.raised = e, !.error = e]]
    /\ UNCHANGED << platform, ctorState, ctorArgs, ctorError, sqReportProcessor,
                    PrcaService, _messageLimit, pending, prThreads, sel >>

\* mutant of PostStart: deleteCodeAnalysisComments is called without waiting
\* for getModifiedFilesInPr
PostStartDeletesAtOnce(r, p, messages) ==
    /\ CanInvoke(r)
    /\ p \notin Nullish
    /\ run' = [q \in Runs |->
                 IF q = r
                 THEN [run[q] EXCEPT !.pc = "awaitFiles", !.sqReportPath = p,
                                     !.allMessages = messages,
                                     !.trace = << "LogDebug", "FetchCommentsFromReport",
                                                  "getModifiedFilesInPr",
                                                  "deleteCodeAnalysisComments" >>,
                                     !.overlapped = \E o \in Runs : o # r /\ Active(o)]
                 ELSE [run[q] EXCEPT !.overlapped = @ \/ Active(q)]]
    /\ pending' = pending \cup {Request(r, "getModifiedFilesInPr", << >>),
                                Request(r, "deleteCodeAnalysisComments", << >>)}
    /\ UNCHANGED << platform, ctorState, ctorArgs, ctorError, sqReportProcessor,
                    PrcaService, _messageLimit, prThreads, sel >>

\* lines 58-65: the findings are fetched and getModifiedFilesInPr is called
PostStart(r, p, messages) ==
    /\ CanInvoke(r)
    /\ p \notin Nullish
    /\ run' = [q \in Runs |->
                 IF q = r
                 THEN [run[q] EXCEPT !.pc = "awaitFiles", !.sqReportPath = p,
                                     !.allMessages = messages,
                                     !.trace = << "LogDebug", "FetchCommentsFromReport",
                                                  "getModifiedFilesInPr" >>,
                                     !.overlapped = \E o \in Runs : o # r /\ Active(o)]
                 ELSE [run[q] EXCEPT !.overlapped = @ \/ Active(q)]]
    /\ pending' = pending \cup {Request(r, "getModifiedFilesInPr", << >>)}
    /\ UNCHANGED << platform, ctorState, ctorArgs, ctorError, sqReportProcessor,
                    PrcaService, _messageLimit, prThreads, sel >>

\* mutant of Reject: a rejection is swallowed and the next callback runs
RejectSwallowed(r, op, e) ==
    /\ \E req \in pending : req.run = r /\ req.op = op
    /\ pending' = {req \in pending : ~(req.run = r /\ req.op = op)}
                     \cup (IF op = "deleteCodeAnalysisComments"
                           THEN {Request(r, "createCodeAnalysisThreads", run[r].messagesToPost)}
                           ELSE {})
    /\ run' = [run EXCEPT ![r] =
                 IF op = "deleteCodeAnalysisComments"
                 THEN [@ EXCEPT !.pc = "awaitCreate", !.rejected = op,
                                !.raised = e, !.error = e,
                                !.trace = @ \o << "LogDebug", "createCodeAnalysisThreads" >>]
                 ELSE [@ EXCEPT !.pc = "failed", !.rejected = op,
                                !.raised = e, !.error = e]]
    /\ UNCHANGED << platform, ctorState, ctorArgs, ctorError, sqReportProcessor,
                    PrcaService, _messageLimit, prThreads, sel >>

\* mutant of Reject: the rejection is caught and a new error is thrown instead
RejectWrapped(r, op, e) ==
    /\ \E req \in pending : req.run = r /\ req.op = op
    /\ pending' = {req \in pending : ~(req.run = r /\ req.op = op)}
    /\ run' = [run EXCEPT ![r] = [@ EXCEPT !.pc = "failed", !.rejected = op,
                                           !.raised = e,
                                           !.error = "Error: posting failed"]]
    /\ UNCHANGED << platform, ctorState, ctorArgs, ctorError, sqReportProcessor,
                    PrcaService, _messageLimit, prThreads, sel >>

\* a pending promise is rejected with e: no later callback of the chain runs
Reject(r, op, e) ==
    /\ \E req \in pending : req.run = r /\ req.op = op
    /\ pending' = {req \in pending : ~(req.run = r /\ req.op = op)}
    /\ run' = [run EXCEPT ![r] = [@ EXCEPT !.pc = "failed", !.rejected = op,
                                           !.raised = e, !.error = e]]
    /\ UNCHANGED << platform, ctorState, ctorArgs, ctorError, sqReportProcessor,
                    PrcaService, _messageLimit, prThreads, sel >>

\* mutant of FilesResolved: an empty selection ends the run at once, with no
\* delete and no create
FilesResolvedShortCircuit(r, files) ==
    /\ \E req \in pending : req.run = r /\ req.op = "getModifiedFilesInPr"
    /\ run' = [run EXCEPT ![r] =
                 [@ EXCEPT !.pc = IF filterMessages(files, run[r].allMessages) = << >>
                                  THEN "done" ELSE "awaitDelete",
                           !.filesChanged = files,
                           !.messagesToPostIsNull = FALSE,
                           !.messagesToPost = filterMessages(files, run[r].allMessages),
                           !.completed = @ \cup {"getModifiedFilesInPr"},
                           !.trace = @ \o << "LogDebug", "filterMessages" >>
                                       \o FilterLog(files, run[r].allMessages)
                                       \o IF filterMessages(files, run[r].allMessages) = << >>
                                          THEN << >>
                                          ELSE << "deleteCodeAnalysisComments" >>]]
    /\ pending' = {req \in pending : ~(req.run = r /\ req.op = "getModifiedFilesInPr")}
                     \cup IF filterMessages(files, run[r].allMessages) = << >>
                          THEN {}
                          ELSE {Request(r, "deleteCodeAnalysisComments", << >>)}
    /\ UNCHANGED << platform, ctorState, ctorArgs, ctorError, sqReportProcessor,
                    PrcaService, _messageLimit, prThreads, sel >>

\* mutant of FilesResolved: messagesToPost is a field of the orchestrator, shared
\* by the invocations in progress
FilesResolvedSharedSelection(r, files) ==
    /\ \E req \in pending : req.run = r /\ req.op = "getModifiedFilesInPr"
    /\ run' = [q \in Runs |->
                 IF q = r
                 THEN [run[q] EXCEPT
                           !.pc = "awaitDelete",
                           !.filesChanged = files,
                           !.messagesToPostIsNull = FALSE,
                           !.messagesToPost = filterMessages(files, run[r].allMessages),
                           !.completed = @ \cup {"getModifiedFilesInPr"},
                           !.trace = @ \o << "LogDebug", "filterMessages" >>
                                       \o FilterLog(files, run[r].allMessages)
                                       \o << "deleteCodeAnalysisComments" >>]
                 ELSE IF Active(q)
                      THEN [run[q] EXCEPT
                                !.messagesToPostIsNull = FALSE,
                                !.messagesToPost = filterMessages(files, run[r].allMessages)]
                      ELSE run[q]]
    /\ pending' = {req \in pending : ~(req.run = r /\ req.op = "getModifiedFilesInPr")}
                     \cup {Request(r, "deleteCodeAnalysisComments", << >>)}
    /\ UNCHANGED << platform, ctorState, ctorArgs, ctorError, sqReportProcessor,
                    PrcaService, _messageLimit, prThreads, sel >>

\* mutant of FilesResolved: the delete step is missing, createCodeAnalysisThreads
\* is called right after the selection
FilesResolvedWithoutDelete(r, files) ==
    /\ \E req \in pending : req.run = r /\ req.op = "getModifiedFilesInPr"
    /\ run' = [run EXCEPT ![r] =
                 [@ EXCEPT !.pc = "awaitCreate",
                           !.filesChanged = files,
                           !.messagesToPostIsNull = FALSE,
                           !.messagesToPost = filterMessages(files, run[r].allMessages),
                           !.completed = @ \cup {"getModifiedFilesInPr"},
                           !.trace = @ \o << "LogDebug", "filterMessages" >>
                                       \o FilterLog(files, run[r].allMessages)
                                       \o << "LogDebug", "createCodeAnalysisThreads" >>]]
    /\ pending' = {req \in pending : ~(req.run = r /\ req.op = "getModifiedFilesInPr")}
                     \cup {Request(r, "createCodeAnalysisThreads",
                                   filterMessages(files, run[r].allMessages))}
    /\ UNCHANGED << platform, ctorState, ctorArgs, ctorError, sqReportProcessor,
                    PrcaService, _messageLimit, prThreads, sel >>

\* lines 66-74: getModifiedFilesInPr answers; the selection is computed and
\* deleteCodeAnalysisComments is called
FilesResolved(r, files) ==
    /\ \E req \in pending : req.run = r /\ req.op = "getModifiedFilesInPr"
    /\ run' = [run EXCEPT ![r] =
                 [@ EXCEPT !.pc = "awaitDelete",
                           !.filesChanged = files,
                           !.messagesToPostIsNull = FALSE,
                           !.messagesToPost = filterMessages(files, run[r].allMessages),
                           !.completed = @ \cup {"getModifiedFilesInPr"},
                           !.trace = @ \o << "LogDebug", "filterMessages" >>
                                       \o FilterLog(files, run[r].allMessages)
                                       \o << "deleteCodeAnalysisComments" >>]]
    /\ pending' = {req \in pending : ~(req.run = r /\ req.op = "getModifiedFilesInPr")}
                     \cup {Request(r, "deleteCodeAnalysisComments", << >>)}
    /\ UNCHANGED << platform, ctorState, ctorArgs, ctorError, sqReportProcessor,
                    PrcaService, _messageLimit, prThreads, sel >>

\* mutant of DeleteResolved: createCodeAnalysisThreads is called with no
\* messages
DeleteResolvedPostsNothing(r) ==
    /\ \E req \in pending : req.run = r /\ req.op = "deleteCodeAnalysisComments"
    /\ prThreads' = DeleteThreads(prThreads)
    /\ run' = [run EXCEPT ![r] =
                 [@ EXCEPT !.pc = "awaitCreate",
                           !.completed = @ \cup {"deleteCodeAnalysisComments"},
                           !.trace = @ \o << "LogDebug", "createCodeAnalysisThreads" >>]]
    /\ pending' = {req \in pending : ~(req.run = r /\ req.op = "deleteCodeAnalysisComments")}
                     \cup {Request(r, "createCodeAnalysisThreads", << >>)}
    /\ UNCHANGED << platform, ctorState, ctorArgs, ctorError, sqReportProcessor,
                    PrcaService, _messageLimit, sel >>

\* mutant of DeleteResolved: createCodeAnalysisThreads is called with
\* allMessages, not with the selection
DeleteResolvedPostsAll(r) ==
    /\ \E req \in pending : req.run = r /\ req.op = "deleteCodeAnalysisComments"
    /\ prThreads' = DeleteThreads(prThreads)
    /\ run' = [run EXCEPT ![r] =
                 [@ EXCEPT !.pc = "awaitCreate",
                           !.completed = @ \cup {"deleteCodeAnalysisComments"},
                           !.trace = @ \o << "LogDebug", "createCodeAnalysisThreads" >>]]
    /\ pending' = {req \in pending : ~(req.run = r /\ req.op = "deleteCodeAnalysisComments")}
                     \cup {Request(r, "createCodeAnalysisThreads", run[r].allMessages)}
    /\ UNCHANGED << platform, ctorState, ctorArgs, ctorError, sqReportProcessor,
                    PrcaService, _messageLimit, sel >>

\* mutant of DeleteResolved: the promise of createCodeAnalysisThreads is not
\* returned from the callback, so the chain is fulfilled at once
DeleteResolvedNotReturned(r) ==
    /\ \E req \in pending : req.run = r /\ req.op = "deleteCodeAnalysisComments"
    /\ prThreads' = DeleteThreads(prThreads)
    /\ run' = [run EXCEPT ![r] =
                 [@ EXCEPT !.pc = "done",
                           !.completed = @ \cup {"deleteCodeAnalysisComments"},
                           !.trace = @ \o << "LogDebug", "createCodeAnalysisThreads" >>]]
    /\ pending' = {req \in pending : ~(req.run = r /\ req.op = "deleteCodeAnalysisComments")}
                     \cup {Request(r, "createCodeAnalysisThreads", run[r].messagesToPost)}
    /\ UNCHANGED << platform, ctorState, ctorArgs, ctorError, sqReportProcessor,
                    PrcaService, _messageLimit, sel >>

\* lines 75-79: deleteCodeAnalysisComments answers; createCodeAnalysisThreads is
\* called with messagesToPost
DeleteResolved(r) ==
    /\ \E req \in pending : req.run = r /\ req.op = "deleteCodeAnalysisComments"
    /\ prThreads' = DeleteThreads(prThreads)
    /\ run' = [run EXCEPT ![r] =
                 [@ EXCEPT !.pc = "awaitCreate",
                           !.completed = @ \cup {"deleteCodeAnalysisComments"},
                           !.trace = @ \o << "LogDebug", "createCodeAnalysisThreads" >>]]
    /\ pending' = {req \in pending : ~(req.run = r /\ req.op = "deleteCodeAnalysisComments")}
                     \cup {Request(r, "createCodeAnalysisThreads", run[r].messagesToPost)}
    /\ UNCHANGED << platform, ctorState, ctorArgs, ctorError, sqReportProcessor,
                    PrcaService, _messageLimit, sel >>

\* mutant of CreateResolved: the answer of createCodeAnalysisThreads does not
\* settle the returned promise
CreateResolvedNeverSettles(r) ==
    /\ \E req \in pending :
          /\ req.run = r /\ req.op = "createCodeAnalysisThreads"
          /\ prThreads' = CreateThreads(prThreads, req.messages)
    /\ run' = [run EXCEPT ![r] =
                 [@ EXCEPT !.completed = @ \cup {"createCodeAnalysisThreads"}]]
    /\ pending' = {req \in pending : ~(req.run = r /\ req.op = "createCodeAnalysisThreads")}
    /\ UNCHANGED << platform, ctorState, ctorArgs, ctorError, sqReportProcessor,
                    PrcaService, _messageLimit, sel >>

\* line 79: createCodeAnalysisThreads answers; the returned promise is fulfilled
CreateResolved(r) ==
    /\ \E req \in pending :
          /\ req.run = r /\ req.op = "createCodeAnalysisThreads"
          /\ prThreads' = CreateThreads(prThreads, req.messages)
    /\ run' = [run EXCEPT ![r] =
                 [@ EXCEPT !.pc = "done",
                           !.completed = @ \cup {"createCodeAnalysisThreads"}]]
    /\ pending' = {req \in pending : ~(req.run = r /\ req.op = "createCodeAnalysisThreads")}
    /\ UNCHANGED << platform, ctorState, ctorArgs, ctorError, sqReportProcessor,
                    PrcaService, _messageLimit, sel >>

RemoteOps == {"getModifiedFilesInPr", "deleteCodeAnalysisComments",
              "createCodeAnalysisThreads"}

(* --------------------------- specifications ---------------------------- *)

NoSelection == [called |-> FALSE, filesChanged |-> << >>, allMessages |-> << >>,
                result |-> << >>, filesChangedAfter |-> << >>,
                allMessagesAfter |-> << >>]

InitObject ==
    /\ ctorState = "unconstructed"
    /\ ctorArgs = [sqReportProcessor |-> "undefined", PrcaService |-> "undefined",
                   messageLimit |-> Undefined]
    /\ ctorError = "none"
    /\ sqReportProcessor = "undefined"
    /\ PrcaService = "undefined"
    /\ _messageLimit = Int_(DefaultMessageLimit)
    /\ run = [r \in Runs |-> IdleRun]
    /\ pending = {}

Init ==
    /\ platform \in {"posix", "win32"}
    /\ InitObject
    /\ prThreads \in InitialThreads
    /\ sel = NoSelection

Next ==
    \/ \E sq \in Collaborators, svc \in Collaborators, ml \in RunLimitArgs :
          Construct(sq, svc, ml)
    \/ \E r \in Runs, p \in ReportPaths : PostInvalidPath(r, p)
    \/ \E r \in Runs, p \in ReportPaths, e \in ParseErrors : PostFetchThrows(r, p, e)
    \/ \E r \in Runs, p \in ReportPaths, m \in Reports : PostStart(r, p, m)
    \/ \E r \in Runs, files \in ChangedLists : FilesResolved(r, files)
    \/ \E r \in Runs : DeleteResolved(r)
    \/ \E r \in Runs : CreateResolved(r)
    \/ \E r \in Runs, op \in RemoteOps, e \in RemoteErrors : Reject(r, op, e)

Spec == Init /\ [][Next]_vars

\* the remote call run r awaits is answered, by a result or by an error
Respond(r) ==
    \/ \E files \in ChangedLists : FilesResolved(r, files)
    \/ DeleteResolved(r)
    \/ CreateResolved(r)
    \/ \E op \in RemoteOps, e \in RemoteErrors : Reject(r, op, e)

\* whether a run ends depends neither on the host nor on the threads the pull
\* request holds: one of each
FairInit ==
    /\ platform = "posix"
    /\ InitObject
    /\ prThreads = << Msg(Str_b, 1) >>
    /\ sel = NoSelection

\* every remote call that was issued is answered in the end
FairSpec == FairInit /\ [][Next]_vars /\ \A r \in Runs : WF_vars(Respond(r))

\* a selection run: filterMessages applied to one pair of inputs
Select ==
    /\ ctorState = "constructed"
    /\ ~sel.called
    /\ \E filesChanged \in AllChangedLists, allMessages \in AllFindingLists :
          LET body == filterMessagesBody(_messageLimit, filesChanged, allMessages)
          IN  sel' = [called |-> TRUE, filesChanged |-> filesChanged,
                      allMessages |-> allMessages,
                      result |-> filterMessages(filesChanged, allMessages),
                      filesChangedAfter |-> body.filesChanged,
                      allMessagesAfter |-> body.allMessages]
    /\ UNCHANGED << platform, ctorState, ctorArgs, ctorError, sqReportProcessor,
                    PrcaService, _messageLimit, run, pending, prThreads >>

SelInit ==
    /\ platform \in {"posix", "win32"}
    /\ InitObject
    /\ prThreads = << >>
    /\ sel = NoSelection

SelNext ==
    \/ \E ml \in LimitArgs : Construct("object", "object", ml)
    \/ Select

SelSpec == SelInit /\ [][SelNext]_vars

(* ------------------------------- claims -------------------------------- *)

\* the collaborator calls of run r that are not log lines, in order
Calls(r) == SelectSeq(run[r].trace, LAMBDA ev : ev # "LogDebug")

Called(r, op) == \E i \in DOMAIN run[r].trace : run[r].trace[i] = op

PendingOf(r) == {req \in pending : req.run = r}

IsPrefix(s, t) == Len(s) <= Len(t) /\ SubSeq(t, 1, Len(s)) = s

\* C1: a failed remote call prevents every later remote call of the run: after a
\* rejection of getModifiedFilesInPr neither deleteCodeAnalysisComments nor
\* createCodeAnalysisThreads is ever called, and after a rejection of
\* deleteCodeAnalysisComments createCodeAnalysisThreads is never called.
C1_FailurePreventsLaterCalls ==
    \A r \in Runs :
       /\ run[r].rejected = "getModifiedFilesInPr" =>
             /\ ~Called(r, "deleteCodeAnalysisComments")
             /\ ~Called(r, "createCodeAnalysisThreads")
             /\ PendingOf(r) = {}
       /\ run[r].rejected = "deleteCodeAnalysisComments" =>
             /\ ~Called(r, "createCodeAnalysisThreads")
             /\ PendingOf(r) = {}

C1_Witness ==
    \E r \in Runs :
       /\ run[r].rejected = "deleteCodeAnalysisComments"
       /\ run[r].pc = "failed"
       /\ \E q \in Runs : run[q].rejected = "getModifiedFilesInPr"

StepOrder == << "FetchCommentsFromReport", "getModifiedFilesInPr", "filterMessages",
                "deleteCodeAnalysisComments", "createCodeAnalysisThreads" >>

\* C2: the steps of a run occur in the order fetch findings, request changed
\* files, compute the selection, request deletion, request creation; a remote
\* call is issued only after the previous one completed successfully, so at
\* most one remote call of the run is outstanding, and deletion is requested
\* only once the selection has been computed.
C2_StepsInOrder ==
    \A r \in Runs :
       /\ IsPrefix(Calls(r), StepOrder)
       /\ Cardinality(PendingOf(r)) <= 1
       /\ Called(r, "deleteCodeAnalysisComments") =>
             /\ "getModifiedFilesInPr" \in run[r].completed
             /\ ~run[r].messagesToPostIsNull
       /\ Called(r, "createCodeAnalysisThreads") =>
             "deleteCodeAnalysisComments" \in run[r].completed
       /\ \A req \in PendingOf(r) : req.op = Calls(r)[Len(Calls(r))]

C2_Witness ==
    \E r \in Runs :
       /\ run[r].pc = "awaitCreate"
       /\ Calls(r) = StepOrder
       /\ Cardinality(PendingOf(r)) = 1

\* C3 (as stated): a null or undefined report path fails with the invalid-input
\* error without invoking any collaborator: not the report processor, not the
\* PR comment service, not the logger.
C3_NoCollaboratorInvoked ==
    \A r \in Runs :
       run[r].sqReportPath \in Nullish =>
          /\ run[r].pc = "threw"
          /\ run[r].error = InvalidInputError
          /\ run[r].trace = << >>
          /\ PendingOf(r) = {}

\* C3 (amended): a null or undefined report path fails with the invalid-input
\* error without invoking the report processor or the PR comment service; the
\* logger alone is invoked, once, before the check.
C3_OnlyLoggerInvoked ==
    \A r \in Runs :
       run[r].sqReportPath \in Nullish =>
          /\ run[r].pc = "threw"
          /\ run[r].error = InvalidInputError
          /\ run[r].trace = << "LogDebug" >>
          /\ PendingOf(r) = {}

C3_Witness ==
    /\ run[1].sqReportPath = "null" /\ run[1].pc = "threw"
    /\ run[2].sqReportPath = "undefined" /\ run[2].pc = "threw"

\* C4: replace semantics: when a run that overlapped no other run completes
\* successfully, the analysis threads on the pull request are exactly the
\* selection computed in that run, in selection order, whatever threads
\* existed before.
C4_ReplaceSemantics ==
    [][\A r \in Runs :
          (run[r].pc = "awaitCreate" /\ run'[r].pc = "done" /\ ~run[r].overlapped)
             => prThreads' = run[r].messagesToPost]_vars

C4_Witness ==
    /\ run[1].pc = "done" /\ ~run[1].overlapped /\ run[1].messagesToPost # << >>
    /\ run[2].pc = "done" /\ ~run[2].overlapped /\ run[2].messagesToPost # << >>
    /\ prThreads = run[2].messagesToPost

\* two paths name the same location: equal after resolution, compared as the
\* platform compares file names
PathEqual(p, q) == CompareKey(Resolve(p)) = CompareKey(Resolve(q))

Relevant(filesChanged, message) ==
    \E i \in DOMAIN filesChanged : PathEqual(filesChanged[i], message.file)

\* the number of places of s that hold x
Count(s, x) == Cardinality({i \in DOMAIN s : s[i] = x})

\* C5: soundness of filterMessages: every finding of the result is an element
\* of allMessages (no more often than it occurs there) whose file is path-equal
\* to at least one changed file.
C5_Soundness ==
    sel.called =>
       \A i \in DOMAIN sel.result :
          /\ Count(sel.result, sel.result[i]) <= Count(sel.allMessages, sel.result[i])
          /\ Count(sel.allMessages, sel.result[i]) > 0
          /\ Relevant(sel.filesChanged, sel.result[i])

C5_Witness ==
    /\ sel.called
    /\ sel.result # << >>
    /\ Len(sel.result) < Len(sel.allMessages)
    /\ \E i \in DOMAIN sel.allMessages : ~Relevant(sel.filesChanged, sel.allMessages[i])

\* the relevant findings in stable descending-priority order
RelevantInOrder ==
    Sort(SelectSeq(sel.allMessages, LAMBDA m : Relevant(sel.filesChanged, m)))

\* lim <= n, n an integer
LimitAtMost(lim, n) ==
    CASE lim.kind = "int" -> lim.val <= n
      [] lim.kind = "neginf" -> TRUE
      [] OTHER -> FALSE

\* the first lim elements of s
FirstN(s, lim) ==
    CASE lim.kind = "int" -> SubSeq(s, 1, Min(Max(lim.val, 0), Len(s)))
      [] lim.kind = "posinf" -> s
      [] OTHER -> << >>

\* C6: completeness up to the cap: a relevant finding is missing from the
\* result only if at least messageLimit relevant findings precede it in the
\* stable descending-priority order; when the relevant findings number at most
\* messageLimit all are returned, and when they number more the result is
\* exactly the first messageLimit of them in that order.
C6_CompleteUpToCap ==
    sel.called =>
       LET rel == RelevantInOrder
       IN  /\ \A k \in DOMAIN rel :
                 (k > Len(sel.result) \/ sel.result[k] # rel[k])
                    => LimitAtMost(_messageLimit, k - 1)
           /\ JsLessEq(Len(rel), _messageLimit) => sel.result = rel
           /\ JsGreater(Len(rel), _messageLimit) =>
                 sel.result = FirstN(rel, _messageLimit)

\* the places of s that hold a finding of priority p
OfPriority(s, p) == SelectSeq(s, LAMBDA m : m.priority = p)

\* C7: the result of filterMessages is sorted by non-increasing priority, and
\* findings of equal priority keep the relative order they had in allMessages.
C7_SortedAndStable ==
    sel.called =>
       /\ \A i, j \in DOMAIN sel.result :
             i < j => sel.result[i].priority >= sel.result[j].priority
       /\ \A p \in Priorities :
             IsPrefix(OfPriority(sel.result, p),
                      OfPriority(SelectSeq(sel.allMessages,
                                           LAMBDA m : Relevant(sel.filesChanged, m)), p))

C7_Witness ==
    /\ sel.called
    /\ Len(sel.allMessages) = 3 /\ Len(sel.result) = 3
    /\ sel.allMessages[1].priority < sel.allMessages[2].priority
    /\ sel.allMessages[2].priority = sel.allMessages[3].priority
    /\ sel.allMessages[2] # sel.allMessages[3]
    /\ sel.result = << sel.allMessages[2], sel.allMessages[3], sel.allMessages[1] >>

\* C8: for every messageLimit the constructor stores, 0 and negative numbers
\* included, filterMessages returns at most messageLimit findings.
C8_AtMostMessageLimit ==
    sel.called => JsLessEq(Len(sel.result), _messageLimit)

\* C9: the effective messageLimit is 100 when the constructor's messageLimit
\* argument is null, undefined, NaN, +Infinity or -Infinity, and the supplied
\* value otherwise.
C9_DefaultUnlessFinite ==
    ctorState = "constructed" =>
       _messageLimit = IF ctorArgs.messageLimit.kind = "int"
                       THEN ctorArgs.messageLimit
                       ELSE Int_(DefaultMessageLimit)

\* C10: construction fails with a ReferenceError exactly when the report
\* processor or the PR comment service is null or undefined, so an orchestrator
\* never holds a missing required collaborator and no run starts without one.
C10_ConstructionRequiresCollaborators ==
    /\ ctorState # "unconstructed" =>
          /\ ctorState = "threw" <=> (\/ ctorArgs.sqReportProcessor \in Nullish
                                      \/ ctorArgs.PrcaService \in Nullish)
          /\ ctorState = "threw" <=> ctorError # "none"
    /\ ctorState = "constructed" =>
          sqReportProcessor \notin Nullish /\ PrcaService \notin Nullish
    /\ \A r \in Runs : run[r].pc # "idle" => ctorState = "constructed"

C10_Witness ==
    /\ ctorState = "threw"
    /\ ctorArgs.sqReportProcessor = "object"
    /\ ctorArgs.PrcaService \in Nullish
    /\ ctorError = "ReferenceError: PrcaService"

\* C11: when getModifiedFilesInPr, deleteCodeAnalysisComments or
\* createCodeAnalysisThreads is rejected with e, the run fails with exactly e:
\* the error is not caught, replaced, wrapped or turned into success.
C11_RejectionPropagatedVerbatim ==
    \A r \in Runs :
       /\ run[r].rejected # "none" =>
             /\ run[r].pc = "failed"
             /\ run[r].raised \in RemoteErrors
             /\ run[r].error = run[r].raised
       /\ run[r].pc = "failed" => run[r].rejected \in RemoteOps
       /\ run[r].pc = "done" => run[r].rejected = "none" /\ run[r].error = "none"

C11_Witness ==
    /\ run[1].pc = "failed" /\ run[1].rejected = "createCodeAnalysisThreads"
    /\ run[1].error = "e1"
    /\ run[2].pc = "failed" /\ run[2].rejected = "deleteCodeAnalysisComments"
    /\ run[2].error = "e2"

\* the report processor raised in run r
FetchRaised(r) ==
    /\ run[r].sqReportPath \notin Nullish
    /\ run[r].raised \in ParseErrors

\* C12: if the report processor raises while fetching findings, the same error
\* reaches the caller and no PR comment service operation is invoked in that
\* run, so the threads posted before are left untouched.
C12_FetchErrorPropagated ==
    [][\A r \in Runs :
          FetchRaised(r)' =>
             /\ run'[r].pc = "threw"
             /\ run'[r].error = run'[r].raised
             /\ \A op \in RemoteOps : ~Called(r, op)'
             /\ PendingOf(r)' = {}
             /\ (run[r].pc = "idle" => prThreads' = prThreads)]_vars

C12_Witness ==
    /\ run[1].pc = "done" /\ run[1].messagesToPost # << >>
    /\ FetchRaised(2) /\ run[2].pc = "threw"
    /\ prThreads = run[1].messagesToPost

\* C13: a run reports success only after getModifiedFilesInPr,
\* deleteCodeAnalysisComments and createCodeAnalysisThreads have all completed
\* successfully in it; never while createCodeAnalysisThreads is outstanding or
\* was not invoked.
C13_SuccessAfterAllThree ==
    \A r \in Runs :
       run[r].pc = "done" =>
          /\ run[r].completed = RemoteOps
          /\ Called(r, "createCodeAnalysisThreads")
          /\ PendingOf(r) = {}

C13_Witness ==
    \E r \in Runs :
       /\ run[r].pc = "done"
       /\ Calls(r) = StepOrder
       /\ \E q \in Runs : run[q].pc = "awaitCreate"

\* a path with every backslash turned into a slash and every letter lower-cased
FoldCaseAndSlash(p) ==
    [i \in DOMAIN p |-> IF p[i] = "\\" THEN "/" ELSE LowerChar(p[i])]

\* two paths that differ at most in letter case and slash direction
SameUpToCaseAndSlash(p, q) == FoldCaseAndSlash(p) = FoldCaseAndSlash(q)

\* C14: the path equality of the relevance filter is case-insensitive and
\* separator-normalizing: a finding whose file differs from a changed file only
\* in letter case or slash direction is kept by filterMessages (here: whenever
\* the cap cannot drop a finding).
C14_CaseAndSlashInsensitive ==
    (sel.called /\ JsLessEq(Len(sel.allMessages), _messageLimit)) =>
       \A i \in DOMAIN sel.allMessages, j \in DOMAIN sel.filesChanged :
          SameUpToCaseAndSlash(sel.filesChanged[j], sel.allMessages[i].file)
             => Count(sel.result, sel.allMessages[i]) > 0

CollaboratorOps == {"FetchCommentsFromReport"} \cup RemoteOps

\* how often run r called op
TimesCalled(r, op) == Cardinality({i \in DOMAIN run[r].trace : run[r].trace[i] = op})

\* C15: in every run each collaborator operation is invoked at most once (no
\* retry), and createCodeAnalysisThreads, when invoked, receives exactly
\* filterMessages(the changed files returned in this run, the findings fetched
\* in this run).
C15_OnceAndWithTheSelection ==
    \A r \in Runs :
       /\ \A op \in CollaboratorOps : TimesCalled(r, op) <= 1
       /\ \A req \in PendingOf(r) :
             req.op = "createCodeAnalysisThreads" =>
                req.messages = filterMessages(run[r].filesChanged, run[r].allMessages)

C15_Witness ==
    \E r \in Runs :
       /\ \E req \in PendingOf(r) :
             /\ req.op = "createCodeAnalysisThreads"
             /\ req.messages # << >>
             /\ req.messages # run[r].allMessages
       /\ \A op \in CollaboratorOps : TimesCalled(r, op) = 1

\* C16: filterMessages leaves its inputs unchanged: after the call allMessages
\* holds the same findings in the same order, with every field as before, and
\* the changed-files list is as it was; only the returned array is filtered,
\* reordered and truncated.
C16_InputsUnchanged ==
    sel.called =>
       /\ sel.allMessagesAfter = sel.allMessages
       /\ sel.filesChangedAfter = sel.filesChanged

C16_Witness ==
    /\ sel.called
    /\ Len(sel.allMessages) = 3 /\ Len(sel.result) = 2
    /\ sel.result[1] = sel.allMessages[3]
    /\ sel.result[2] = sel.allMessages[1]
    /\ sel.result[1].priority > sel.result[2].priority
    /\ sel.allMessagesAfter = sel.allMessages

\* the selection of run r, from the findings it fetched and the changed files
\* it was answered
OwnSelection(r) == filterMessages(run[r].filesChanged, run[r].allMessages)

\* C17: overlapping invocations share no mutable state: under every
\* interleaving of their suspension points, the selection an invocation holds
\* and passes to createCodeAnalysisThreads is the one computed from its own
\* findings and its own changed-files answer, never the other invocation's.
C17_OverlappingRunsKeepTheirSelection ==
    \A r \in Runs :
       run[r].overlapped =>
          /\ run[r].pc = "awaitFiles" => run[r].messagesToPostIsNull
          /\ ~run[r].messagesToPostIsNull => run[r].messagesToPost = OwnSelection(r)
          /\ \A req \in PendingOf(r) :
                req.op = "createCodeAnalysisThreads" => req.messages = OwnSelection(r)

C17_Witness ==
    /\ run[1].overlapped /\ run[2].overlapped
    /\ run[1].pc = "awaitCreate" /\ run[2].pc = "awaitCreate"
    /\ \E req1 \in PendingOf(1), req2 \in PendingOf(2) :
          /\ req1.op = "createCodeAnalysisThreads"
          /\ req2.op = "createCodeAnalysisThreads"
          /\ req1.messages # req2.messages

\* C18: overlapping invocations against the same pull request are not safe.
\* When both deletes were answered before both creates, the create of the
\* second run is answered on a pull request that still holds the threads of
\* the first, and it leaves the threads of both runs: the pull request is
\* replaced by one run's selection only when the runs are serialized.
C18_SecondCreateAddsToTheFirst ==
    [][\A r \in Runs : \A q \in Runs \ {r} :
          ( /\ run[q].pc = "done" /\ run[q].overlapped
            /\ run[r].pc = "awaitCreate" /\ run'[r].pc = "done"
            /\ prThreads = run[q].messagesToPost )
          => prThreads' = run[q].messagesToPost \o run[r].messagesToPost]_vars

C18_Witness ==
    /\ \A r \in Runs : run[r].pc = "done" /\ run[r].overlapped
    /\ \A r \in Runs : run[r].messagesToPost # << >>
    /\ \E r \in Runs : \E q \in Runs \ {r} :
          prThreads = run[q].messagesToPost \o run[r].messagesToPost
    /\ \A r \in Runs : prThreads # run[r].messagesToPost

\* run r holds an empty selection
EmptySelection(r) == ~run[r].messagesToPostIsNull /\ run[r].messagesToPost = << >>

\* the step in which run r succeeds
Succeeds(r) == run[r].pc = "awaitCreate" /\ run'[r].pc = "done"

\* C19 as stated: an empty selection does not short-circuit the run, which
\* still deletes and then creates with an empty sequence, so that every
\* successful run with an empty selection leaves the pull request with no
\* analysis threads.
C19_EmptySelectionLeavesNoThreads ==
    [][\A r \in Runs :
          (Succeeds(r) /\ EmptySelection(r)) => prThreads' = << >>]_vars

\* C19 amended: an empty selection does not short-circuit the run: the answer
\* of getModifiedFilesInPr is followed by the delete request and the answer of
\* the delete by a create request with an empty sequence; a successful run that
\* overlapped no other run leaves the pull request with no analysis threads.
C19_EmptySelectionStillDeletesAndCreates ==
    [][\A r \in Runs :
          /\ (run[r].pc = "awaitFiles" /\ run'[r].pc # "awaitFiles"
                  /\ run'[r].pc # "failed" /\ run'[r].messagesToPost = << >>)
             => /\ run'[r].pc = "awaitDelete"
                /\ PendingOf(r)' = {Request(r, "deleteCodeAnalysisComments", << >>)}
          /\ (run[r].pc = "awaitDelete" /\ run'[r].pc # "awaitDelete"
                  /\ run'[r].pc # "failed" /\ EmptySelection(r))
             => /\ run'[r].pc = "awaitCreate"
                /\ PendingOf(r)' = {Request(r, "createCodeAnalysisThreads", << >>)}
          /\ (Succeeds(r) /\ EmptySelection(r))
             => /\ Called(r, "deleteCodeAnalysisComments")
                /\ Called(r, "createCodeAnalysisThreads")
                /\ ~run[r].overlapped => prThreads' = << >>]_vars

C19_Witness ==
    /\ run[1].pc = "done" /\ run[1].messagesToPost # << >>
    /\ run[2].pc = "done" /\ ~run[2].overlapped /\ EmptySelection(2)
    /\ run[2].allMessages # << >>
    /\ Called(2, "deleteCodeAnalysisComments")
    /\ Called(2, "createCodeAnalysisThreads")
    /\ prThreads = << >>

\* run r was invoked with a report path that is neither null nor undefined
Started(r) == run[r].pc # "idle" /\ run[r].sqReportPath \notin Nullish

\* the run has ended: fulfilled, or failed by a rejection or by the error
\* FetchCommentsFromReport raised
Ended(r) == run[r].pc \in {"done", "failed", "threw"}

\* C20: provided every remote call that is issued is answered, every run with
\* a non-null report path ends, in exactly one of success and failure, and an
\* ended run stays as it ended (a run that has started is again and again, and
\* so from some point on, an ended one). The core has no timeout: a run that awaits an
\* answer has exactly one remote call outstanding, and as long as that call is
\* not answered the run neither ends nor issues another call.
C20_EndsIfAnswered ==
    /\ \A r \in Runs : []<>(Started(r) => Ended(r))
    /\ [](\A r \in Runs : Active(r) => Cardinality(PendingOf(r)) = 1)
    /\ [](\A r \in Runs : Ended(r) => PendingOf(r) = {})
    /\ [][\A r \in Runs :
             /\ Ended(r) => run'[r].pc = run[r].pc
             /\ (Active(r) /\ PendingOf(r)' = PendingOf(r))
                => (run'[r].pc = run[r].pc /\ run'[r].trace = run[r].trace)]_vars

C20_Witness ==
    /\ run[1].pc = "done" /\ run[1].overlapped
    /\ run[2].pc = "failed" /\ run[2].rejected = "createCodeAnalysisThreads"
    /\ pending = {}

====
